---- MODULE Spec2Model ----
(***************************************************************************)
(* waybackpack: the command line run (cli.py) and the download             *)
(* orchestrator (pack.py).                                                 *)
(*                                                                         *)
(* Strings are sequences of one-character strings, so that parsing a       *)
(* timestamp, splitting a path and replacing characters are computed on    *)
(* the characters as the code computes them.                               *)
(***************************************************************************)
EXTENDS Integers, Sequences, FiniteSets, TLC

\* ------------------------------------------------------------------ bounds

\* Longest list of snapshots the index returns in a modelled run.
MaxLen == 3

\* Largest --frequency value (in days) given on the command line.
MaxFrequency == 2

\* ------------------------------------------------------- program constants

\* cli.py:136  timedelta(days=1), the gap the filter compares against.
HardCodedDays == 1

\* cli.py:63   default=1 of --frequency.
DefaultFrequency == 1

\* ------------------------------------------------------------ characters

Digits == <<"0", "1", "2", "3", "4", "5", "6", "7", "8", "9">>

IsDigit(c) == \E k \in 1..10 : Digits[k] = c

DigitVal(c) == (CHOOSE k \in 1..10 : Digits[k] = c) - 1

\* The decimal value of a run of digit characters.
RECURSIVE NumVal(_)
NumVal(cs) ==
    IF cs = <<>> THEN 0
    ELSE NumVal(SubSeq(cs, 1, Len(cs) - 1)) * 10 + DigitVal(cs[Len(cs)])

\* Formatting, used only to write the sample inputs below.
Fmt2(n) == <<Digits[(n \div 10) + 1], Digits[(n % 10) + 1]>>

Fmt4(n) == Fmt2(n \div 100) \o Fmt2(n % 100)

MkTimestamp(y, mo, d, h, mi, s) ==
    Fmt4(y) \o Fmt2(mo) \o Fmt2(d) \o Fmt2(h) \o Fmt2(mi) \o Fmt2(s)

\* ------------------------------------------- datetime.strptime / timedelta

IsLeap(y) == (y % 4 = 0) /\ ((y % 100 # 0) \/ (y % 400 = 0))

DaysInMonth(y, mo) ==
    IF mo = 2 THEN (IF IsLeap(y) THEN 29 ELSE 28)
    ELSE IF mo \in {4, 6, 9, 11} THEN 30 ELSE 31

RECURSIVE DaysBeforeMonth(_, _)
DaysBeforeMonth(y, mo) ==
    IF mo <= 1 THEN 0 ELSE DaysBeforeMonth(y, mo - 1) + DaysInMonth(y, mo - 1)

DaysBeforeYear(y) ==
    (y - 1) * 365 + ((y - 1) \div 4) - ((y - 1) \div 100) + ((y - 1) \div 400)

\* The directives of '%Y%m%d%H%M%S' after %Y, in the format's order.
Directives == <<"m", "d", "H", "M", "S">>

\* What the pattern of one directive takes of digit characters (_strptime:
\* %m is 1[0-2]|0[1-9]|[1-9], %d is 3[01]|[12]\d|0[1-9]|[1-9], %H is
\* 2[0-3]|[0-1]\d|\d, %M is [0-5]\d|\d, %S is 6[0-1]|[0-5]\d|\d): two
\* characters in the directive's range, or one.
DirectiveTakes(dv, cs) ==
    /\ \A k \in 1..Len(cs) : IsDigit(cs[k])
    /\ IF Len(cs) = 2
       THEN CASE dv = "m" -> NumVal(cs) \in 1..12
              [] dv = "d" -> NumVal(cs) \in 1..31
              [] dv = "H" -> NumVal(cs) \in 0..23
              [] dv = "M" -> NumVal(cs) \in 0..59
              [] dv = "S" -> NumVal(cs) \in 0..61
       ELSE CASE dv \in {"m", "d"} -> NumVal(cs) \in 1..9
              [] OTHER -> NumVal(cs) \in 0..9

\* A match is the widths the directives take; this stands for none.
NoMatch == <<0>>

\* The match re.match finds from directive j on, with the characters before
\* position pos taken.  The pattern's alternatives are tried in order: two
\* characters before one, an earlier directive giving way only after every
\* later one has.  (Each attempt is bound by \in, to be computed once.)
RECURSIVE MatchFrom(_, _, _)
MatchFrom(s, pos, j) ==
    IF j > Len(Directives) THEN <<>>
    ELSE LET Try(n) ==
                 IF /\ pos + n - 1 <= Len(s)
                    /\ DirectiveTakes(Directives[j], SubSeq(s, pos, pos + n - 1))
                 THEN MatchFrom(s, pos + n, j + 1)
                 ELSE NoMatch
             OrOne ==
                 CHOOSE r \in {IF one # NoMatch THEN <<1>> \o one ELSE NoMatch :
                                  one \in {Try(1)}} : TRUE
         IN  CHOOSE r \in {IF two # NoMatch THEN <<2>> \o two ELSE OrOne :
                              two \in {Try(2)}} : TRUE

RECURSIVE WidthSum(_, _)
WidthSum(w, j) == IF j = 0 THEN 0 ELSE WidthSum(w, j - 1) + w[j]

\* The characters directive j takes under the widths w.
Field(s, w, j) == SubSeq(s, 5 + WidthSum(w, j - 1), 4 + WidthSum(w, j))

\* The widths of the match re.match finds for the whole pattern: four
\* digits for %Y, then the directives.
MatchedWidths(s) ==
    IF Len(s) >= 4 /\ \A k \in 1..4 : IsDigit(s[k])
    THEN MatchFrom(s, 5, 1)
    ELSE NoMatch

NoTime == [parses |-> FALSE, Y |-> 0, m |-> 0, d |-> 0, H |-> 0, M |-> 0, S |-> 0]

\* What strptime makes of s once the pattern has matched with widths w.
Converted(s, w) ==
    LET Y == NumVal(SubSeq(s, 1, 4))
        m == NumVal(Field(s, w, 1))
        d == NumVal(Field(s, w, 2))
        S == NumVal(Field(s, w, 5))
    IN  IF /\ w # NoMatch
           /\ 4 + WidthSum(w, 5) = Len(s)
           /\ Y >= 1
           /\ d <= DaysInMonth(Y, m)
           /\ S <= 59
        THEN [parses |-> TRUE, Y |-> Y, m |-> m, d |-> d,
              H |-> NumVal(Field(s, w, 3)), M |-> NumVal(Field(s, w, 4)),
              S |-> S]
        ELSE NoTime

\* strptime(s, '%Y%m%d%H%M%S') for strings of digits: whether it returns,
\* and the values it reads.  It raises ValueError where the pattern matches
\* no prefix of s, where the match leaves characters over ("unconverted
\* data remains"), and where datetime() rejects the values: year 0, a day
\* past the month's end, a second past 59.  A string of fewer than 14
\* digits can match, with directives one character wide.
strptime(s) ==
    CHOOSE t \in {Converted(s, w) : w \in {MatchedWidths(s)}} : TRUE

\* Whether string_to_datetime(s) returns (TRUE) or raises ValueError.
Parses(s) == strptime(s).parses

\* cli.py:123-124.  A datetime is its proleptic ordinal day and the second
\* of that day (an instant in seconds does not fit TLC's 32-bit integers).
string_to_datetime(s) ==
    CHOOSE dt \in
        {[day |-> DaysBeforeYear(f.Y) + DaysBeforeMonth(f.Y, f.m) + f.d,
          sec |-> f.H * 3600 + f.M * 60 + f.S] : f \in {strptime(s)}} : TRUE

\* datetime.__sub__: a normalised timedelta, 0 <= seconds < 86400.
DtSub(a, b) ==
    IF a.sec >= b.sec
    THEN [days |-> a.day - b.day, seconds |-> a.sec - b.sec]
    ELSE [days |-> a.day - b.day - 1, seconds |-> a.sec - b.sec + 86400]

\* timedelta(days=n)
timedelta(n) == [days |-> n, seconds |-> 0]

\* timedelta.__ge__
TdGe(x, y) == (x.days > y.days) \/ (x.days = y.days /\ x.seconds >= y.seconds)

\* ------------------------------------------------------ filter_by_frequency

\* What a Python call gives back: a value, or an exception.
Returned(v) == [raised |-> FALSE, value |-> v]

Raised == [raised |-> TRUE, value |-> <<>>]

\* Fault: the gap forgotten, any timestamp not before the last one is kept.
RetainsAnyLater(current_dt, last_dt, frequency) ==
    TdGe(DtSub(current_dt, last_dt), timedelta(0))

\* cli.py:136, the test that retains the current timestamp.  The frequency
\* argument is not read: the gap compared against is timedelta(days=1).
Retains(current_dt, last_dt, frequency) ==
    TdGe(DtSub(current_dt, last_dt), timedelta(HardCodedDays))

\* Fault: last_dt assigned outside the if, so that each timestamp is
\* compared with the previous raw one.
NextLastRaw(kept, current_dt, last_dt) == current_dt

\* cli.py:138, last_dt after one pass of the loop body: assigned only
\* inside the if, so a skipped timestamp leaves it alone.
NextLast(kept, current_dt, last_dt) == IF kept THEN current_dt ELSE last_dt

\* Fault: result starts empty.
InitialResultEmpty(timestamps) == <<>>

\* cli.py:131, result before the loop.
InitialResult(timestamps) == <<timestamps[1]>>

\* cli.py:134-139, the loop over timestamps[1:].
RECURSIVE FilterLoop(_, _, _, _)
FilterLoop(rest, result, last_dt, frequency) ==
    IF rest = <<>> THEN Returned(result)
    ELSE IF ~Parses(Head(rest)) THEN Raised
    ELSE LET current_dt == string_to_datetime(Head(rest))
             kept == Retains(current_dt, last_dt, frequency)
         IN  FilterLoop(Tail(rest),
                        IF kept THEN Append(result, Head(rest)) ELSE result,
                        NextLast(kept, current_dt, last_dt),
                        frequency)

\* cli.py:127-139
filter_by_frequency(timestamps, frequency) ==
    IF timestamps = <<>> THEN Returned(<<>>)
    ELSE IF ~Parses(timestamps[1]) THEN Raised
    ELSE FilterLoop(Tail(timestamps), InitialResult(timestamps),
                    string_to_datetime(timestamps[1]), frequency)

\* --------------------------------------------------------------- os.path

\* platform.system().lower() of the hosts told apart at pack.py:26-32.
Platforms == {"windows", "darwin", "linux"}

\* pack.py:26-32
invalid_chars(psl) ==
    IF psl \in {"windows", "cygwin"}
    THEN {"<", ">", ":", "\"", "\\", "|", "?", "*"}
    ELSE IF psl = "darwin" THEN {":"}
    ELSE {}

\* Fault: only the first reserved character is replaced.
ReplaceFirstInvalidChar(psl, path, fallback_char) ==
    [k \in 1..Len(path) |->
        IF /\ path[k] \in invalid_chars(psl)
           /\ \A j \in 1..(k - 1) : path[j] \notin invalid_chars(psl)
        THEN fallback_char ELSE path[k]]

\* pack.py:35-36
replace_invalid_chars(psl, path, fallback_char) ==
    [k \in 1..Len(path) |->
        IF path[k] \in invalid_chars(psl) THEN fallback_char ELSE path[k]]

\* os.sep, and the characters os.path.split cuts at.
Sep(psl) == IF psl = "windows" THEN "\\" ELSE "/"

Seps(psl) == IF psl = "windows" THEN {"/", "\\"} ELSE {"/"}

\* Index of the last separator of p, 0 when it has none.
LastSep(psl, p) ==
    IF \E k \in 1..Len(p) : p[k] \in Seps(psl)
    THEN CHOOSE k \in 1..Len(p) :
            /\ p[k] \in Seps(psl)
            /\ \A j \in (k + 1)..Len(p) : p[j] \notin Seps(psl)
    ELSE 0

RECURSIVE RStripSeps(_, _)
RStripSeps(psl, p) ==
    IF p # <<>> /\ p[Len(p)] \in Seps(psl)
    THEN RStripSeps(psl, SubSeq(p, 1, Len(p) - 1))
    ELSE p

\* os.path.split: the head loses its trailing separators unless it is
\* made of separators only.
os_path_split(psl, p) ==
    LET i == LastSep(psl, p)
        head == SubSeq(p, 1, i)
    IN  [head |-> IF RStripSeps(psl, head) = <<>> THEN head
                  ELSE RStripSeps(psl, head),
         tail |-> SubSeq(p, i + 1, Len(p))]

\* str.lstrip("/")
RECURSIVE LStripSlash(_)
LStripSlash(p) ==
    IF p # <<>> /\ p[1] = "/" THEN LStripSlash(Tail(p)) ELSE p

\* os.path.join(a, b) for a relative b.
os_path_join(psl, a, b) ==
    IF a = <<>> \/ a[Len(a)] \in Seps(psl) THEN a \o b
    ELSE a \o <<Sep(psl)>> \o b

\* ------------------------------------------------------------ sample inputs

\* Timestamps the index returns in the modelled runs: captures half a day,
\* one day and two days apart, a pair across a month's end, one string
\* that strptime rejects (month 13), and one a digit short of a timestamp.
T_Jan01 == MkTimestamp(2015, 1, 1, 0, 0, 0)

T_Jan01Noon == MkTimestamp(2015, 1, 1, 12, 0, 0)

T_Jan02 == MkTimestamp(2015, 1, 2, 0, 0, 0)

T_Jan03 == MkTimestamp(2015, 1, 3, 0, 0, 0)

T_Jan31Noon == MkTimestamp(2015, 1, 31, 12, 0, 0)

T_Feb01 == MkTimestamp(2015, 2, 1, 0, 0, 0)

T_Malformed == MkTimestamp(2015, 13, 1, 0, 0, 0)

\* "2015010200000": the 14 characters of T_Jan02 less the last.
T_Truncated == SubSeq(T_Jan02, 1, 13)

\* In ascending order, as the index lists them.
IndexPool == <<T_Jan01, T_Jan01Noon, T_Jan02, T_Jan03, T_Malformed>>

FilterPool ==
    {T_Jan01, T_Jan01Noon, T_Truncated, T_Jan02, T_Jan03, T_Jan31Noon,
     T_Feb01, T_Malformed}

\* The target URLs of the modelled runs, with what urlparse makes of them:
\* "http://h:8/a/" (no path tail) and "http://h:8/a/p" (path tail "p").
UrlText(u) ==
    <<"h", "t", "t", "p", ":", "/", "/", "h", ":", "8", "/", "a", "/">>
        \o (IF u = "file_url" THEN <<"p">> ELSE <<>>)

UrlNetloc(u) == <<"h", ":", "8">>

UrlPath(u) == <<"/", "a", "/">> \o (IF u = "file_url" THEN <<"p">> ELSE <<>>)

Urls == {"dir_url", "file_url"}

\* --dir
Directory == <<"d">>

FallbackChar == "_"

DotHtml == <<".", "h", "t", "m", "l">>

\* The ascending subsequences of pool with at most n elements.
RECURSIVE AscSeqs(_, _)
AscSeqs(pool, n) ==
    IF pool = <<>> \/ n = 0 THEN {<<>>}
    ELSE AscSeqs(Tail(pool), n)
         \cup {<<Head(pool)>> \o s : s \in AscSeqs(Tail(pool), n - 1)}

\* Every sequence over S with at most n elements.
RECURSIVE SeqsUpTo(_, _)
SeqsUpTo(S, n) ==
    IF n = 0 THEN {<<>>}
    ELSE SeqsUpTo(S, n - 1)
         \cup {Append(s, x) : s \in {q \in SeqsUpTo(S, n - 1) : Len(q) = n - 1},
                              x \in S}

Range(s) == {s[k] : k \in 1..Len(s)}

\* ------------------------------------------------------- destination paths

\* pack.py:75-77
PathTail(psl, u, timestamp) ==
    IF os_path_split(psl, UrlPath(u)).tail = <<>>
    THEN timestamp \o DotHtml
    ELSE os_path_split(psl, UrlPath(u)).tail

\* pack.py:79-83
FileDir(psl, u) ==
    os_path_join(psl,
        os_path_join(psl, Directory,
            replace_invalid_chars(psl, UrlNetloc(u), FallbackChar)),
        replace_invalid_chars(psl,
            LStripSlash(os_path_split(psl, UrlPath(u)).head), FallbackChar))

\* pack.py:85-87
FilePath(psl, u, timestamp) ==
    os_path_join(psl, FileDir(psl, u),
        replace_invalid_chars(psl, PathTail(psl, u, timestamp), FallbackChar))

\* ------------------------------------------------------------- file system

\* A file is what it holds: nothing there ("absent"), zero bytes ("empty"),
\* bytes from before the run ("old"), the bytes a fetch returned ("html",
\* "nohead", "binary") or a page rewritten with its <base> tag ("based").
\* origin is the timestamp of the asset the bytes came from.
Absent == [kind |-> "absent", origin |-> <<>>]

EmptyFile == [kind |-> "empty", origin |-> <<>>]

OldFile == [kind |-> "old", origin |-> <<>>]

\* os.path.exists
Exists(f) == f.kind # "absent"

\* os.path.getsize
NonEmpty(f) == f.kind \notin {"absent", "empty"}

\* What Asset.fetch can return as content for an asset: a page with a
\* <head>, a text lxml parses without a <head>, bytes that are not UTF-8,
\* and no bytes at all.
ContentKinds == {"html", "nohead", "binary", "empty"}

Content(kind, timestamp) ==
    [kind |-> kind, origin |-> IF kind = "empty" THEN <<>> ELSE timestamp]

NoContent == [kind |-> "none", origin |-> <<>>]

\* ------------------------------------------------------------------- state

VARIABLES
    pc,            \* where the run is
    error,         \* what the run raised, "none" while it has not
    snapshots,     \* cli.py:156  the timestamps of the index's snapshots
    timestamps,    \* cli.py:165, 168
    frequency,     \* args.frequency
    list_mode,     \* args.list (else args.dir)
    url,           \* args.url
    psl,           \* pack.py:26
    assets,        \* Pack.assets
    ignore_errors, \* download_to's arguments
    no_clobber,
    i,             \* index in assets of the asset the for loop is at
    content,       \* pack.py:99
    dir_exists,    \* whether filedir is a directory on disk
    files,         \* the files at the destinations, by path
    mkdir_failed,  \* whether the last os.makedirs failed to make filedir
    fetch_log,     \* the Asset.fetch calls made, with their outcome
    write_log,     \* the assets whose bytes pack.py:121-123 wrote
    warnings,      \* the logger.warn calls of pack.py:107
    stdout,        \* the lines printed
    once,          \* harness: the function applied to the input
    twice,         \* harness: the function applied to that result
    path,          \* sanitizer harness: the path given
    fallback_char, \* sanitizer harness: the fallback character given
    first_run      \* how an earlier download_to run on this directory ended

vars == <<pc, error, snapshots, timestamps, frequency, list_mode, url, psl,
          assets, ignore_errors, no_clobber, i, content, dir_exists, files,
          mkdir_failed, fetch_log, write_log, warnings, stdout, once, twice,
          path, fallback_char, first_run>>

mainVars == <<snapshots, frequency, list_mode, url, psl>>

runVars == <<assets, ignore_errors, no_clobber, i, content, dir_exists, files,
             mkdir_failed, fetch_log, write_log, warnings, stdout>>

harnessVars == <<once, twice, path, fallback_char>>

\* No earlier run.
NoRun == [ended |-> "none", error |-> "none", write_log |-> <<>>, files |-> <<>>]

\* The destinations of a run: one per timestamp, or one for all.
Dests(p, u, stamps) == {FilePath(p, u, s) : s \in Range(stamps)}

\* At most this many destinations hold a file before the run.
MaxPreExisting == 1

InitialFiles(p, u, stamps) ==
    {f \in [Dests(p, u, stamps) -> {Absent, EmptyFile, OldFile}] :
        Cardinality({d \in Dests(p, u, stamps) : Exists(f[d])})
            <= MaxPreExisting}

\* The state at cli.py:165: arguments parsed, the index searched, for an
\* index drawn from the pool and a --frequency among those given.
InitFrom(pool, frequencies) ==
    /\ pc = "filter"
    /\ error = "none"
    /\ snapshots \in AscSeqs(pool, MaxLen)
    /\ timestamps = snapshots
    /\ frequency \in frequencies
    /\ list_mode \in BOOLEAN
    /\ url \in Urls
    /\ psl \in Platforms
    /\ assets = <<>>
    /\ ignore_errors = FALSE
    /\ no_clobber = FALSE
    /\ i = 0
    /\ content = NoContent
    /\ files \in InitialFiles(psl, url, snapshots)
    /\ dir_exists \in BOOLEAN
    /\ (\E d \in DOMAIN files : Exists(files[d])) => dir_exists
    /\ mkdir_failed = FALSE
    /\ fetch_log = <<>>
    /\ write_log = <<>>
    /\ warnings = <<>>
    /\ stdout = <<>>
    /\ once = Returned(<<>>)
    /\ twice = Returned(<<>>)
    /\ path = <<>>
    /\ fallback_char = FallbackChar
    /\ first_run = NoRun

Init == InitFrom(IndexPool, DefaultFrequency..MaxFrequency)

\* ------------------------------------------------------------------ cli.py

\* cli.py:168
FilterTimestamps ==
    /\ pc = "filter"
    /\ LET r == filter_by_frequency(timestamps, frequency)
       IN  IF r.raised
           THEN /\ pc' = "raised"
                /\ error' = "parse"
                /\ UNCHANGED timestamps
           ELSE /\ pc' = "pack"
                /\ timestamps' = r.value
                /\ UNCHANGED error
    /\ UNCHANGED <<mainVars, runVars, harnessVars, first_run>>

\* asset.py: Asset(original_url, timestamp)
Asset(original_url, timestamp) ==
    [original_url |-> original_url, timestamp |-> timestamp]

\* Fault: the assets are built from the timestamps in reverse.
PackAssetsReversed(u, stamps) ==
    [k \in 1..Len(stamps) |->
        [original_url |-> UrlText(u) \o <<"/">>,
         timestamp |-> stamps[Len(stamps) + 1 - k]]]

\* pack.py:41, 53-56
PackAssets(u, stamps) ==
    [k \in 1..Len(stamps) |-> Asset(UrlText(u) \o <<"/">>, stamps[k])]

\* Fault: the run downloads whether or not a directory was given.
AfterPackDownloads(listing) == "call"

\* cli.py:172-181: with a directory main downloads, without one it lists.
AfterPack(listing) == IF listing THEN "list" ELSE "call"

\* cli.py:170
BuildPack ==
    /\ pc = "pack"
    /\ assets' = PackAssets(url, timestamps)
    /\ pc' = AfterPack(list_mode)
    /\ UNCHANGED <<error, timestamps, mainVars, ignore_errors, no_clobber, i,
                   content, dir_exists, files, mkdir_failed, fetch_log,
                   write_log, warnings, stdout, harnessVars, first_run>>

\* --------------------------------------------------------- Pack.download_to

\* The asset the loop is at, and its destination.
Current == assets[i]

FilePathOf(k) == FilePath(psl, url, assets[k].timestamp)

\* Fault: the no-clobber test left out.
NeverSkips(noclobber, f) == FALSE

\* Fault: the size test left out, an empty file is passed over too.
SkipsExistingAnySize(noclobber, f) == noclobber /\ Exists(f)

\* pack.py:89-91
SkipsExisting(noclobber, f) == noclobber /\ (Exists(f) /\ NonEmpty(f))

\* Fault: the None test left out, the loop body goes on to write.
AfterFetchNoneWrites == "mkdir"

\* pack.py:101-102, where the loop goes when fetch returned None.
AfterFetchNone == "loop"

\* Fault: a fetch error is logged and passed over whatever ignore_errors is.
OnFetchErrorAlwaysContinues(ignore) == "loop"

\* Fault: an ignored fetch error sends the loop back to the same fetch.
OnFetchErrorRetries(ignore) == IF ignore = TRUE THEN "fetch" ELSE "raised"

\* pack.py:104-114, where the loop goes when fetch raised.
OnFetchError(ignore) == IF ignore = TRUE THEN "loop" ELSE "raised"

\* Fault: the open and write inside the try that ignore_errors governs.
OnWriteErrorIgnorable(ignore) == IF ignore = TRUE THEN "loop" ELSE "raised"

\* pack.py:116-123 and 141-142: os.makedirs swallows its OSError, open and
\* write stand outside every try, so their error leaves download_to.
OnWriteError(ignore) == "raised"

\* Fault: the loop goes to its next asset with the file not yet rewritten.
AfterWriteNextAsset == "loop"

\* pack.py:121-127, where the loop goes when the bytes are written: on to
\* reading the file back.
AfterWrite == "post"

\* cli.py:172-180 and pack.py:58-74: main passes its arguments on.
CallDownloadTo ==
    /\ pc = "call"
    /\ \E ie \in BOOLEAN, nc \in BOOLEAN :
          /\ ignore_errors' = ie
          /\ no_clobber' = nc
    /\ i' = 0
    /\ pc' = "loop"
    /\ UNCHANGED <<error, timestamps, mainVars, assets, content, dir_exists,
                   files, mkdir_failed, fetch_log, write_log, warnings,
                   stdout, harnessVars, first_run>>

\* pack.py:74: the for loop is out of assets, download_to and main return.
LoopEnds ==
    /\ pc = "loop"
    /\ i = Len(assets)
    /\ pc' = "done"
    /\ UNCHANGED <<error, timestamps, mainVars, runVars, harnessVars, first_run>>

\* pack.py:74-96: the next asset, its destination, the no-clobber test.
NextAsset ==
    /\ pc = "loop"
    /\ i < Len(assets)
    /\ i' = i + 1
    /\ pc' = IF SkipsExisting(no_clobber, files[FilePathOf(i + 1)])
             THEN "loop" ELSE "fetch"
    /\ UNCHANGED <<error, timestamps, mainVars, assets, ignore_errors,
                   no_clobber, content, dir_exists, files, mkdir_failed,
                   fetch_log, write_log, warnings, stdout, harnessVars, first_run>>

Fetched(outcome) == [asset |-> i, outcome |-> outcome]

\* pack.py:99: fetch returns bytes.
FetchContent ==
    /\ pc = "fetch"
    /\ \E kind \in ContentKinds : content' = Content(kind, Current.timestamp)
    /\ fetch_log' = Append(fetch_log, Fetched("content"))
    /\ pc' = "mkdir"
    /\ UNCHANGED <<error, timestamps, mainVars, assets, ignore_errors,
                   no_clobber, i, dir_exists, files, mkdir_failed, write_log,
                   warnings, stdout, harnessVars, first_run>>

\* pack.py:99-102: fetch returns None.
FetchNone ==
    /\ pc = "fetch"
    /\ content' = NoContent
    /\ fetch_log' = Append(fetch_log, Fetched("none"))
    /\ pc' = AfterFetchNone
    /\ UNCHANGED <<error, timestamps, mainVars, assets, ignore_errors,
                   no_clobber, i, dir_exists, files, mkdir_failed, write_log,
                   warnings, stdout, harnessVars, first_run>>

\* pack.py:99, 104-114: fetch raises.
FetchRaises ==
    /\ pc = "fetch"
    /\ fetch_log' = Append(fetch_log, Fetched("raise"))
    /\ pc' = OnFetchError(ignore_errors)
    /\ IF OnFetchError(ignore_errors) = "loop"
       THEN /\ warnings' = Append(warnings, i)
            /\ UNCHANGED error
       ELSE /\ error' = "fetch"
            /\ UNCHANGED warnings
    /\ UNCHANGED <<timestamps, mainVars, assets, ignore_errors, no_clobber, i,
                   content, dir_exists, files, mkdir_failed, write_log, stdout,
                   harnessVars, first_run>>

\* pack.py:116-119: os.makedirs(filedir); whatever OSError it raises (the
\* directory is there already, or could not be made) is passed over.
MakeDirs ==
    /\ pc = "mkdir"
    /\ IF dir_exists
       THEN /\ mkdir_failed' = FALSE
            /\ UNCHANGED dir_exists
       ELSE \E made \in BOOLEAN :
               /\ dir_exists' = made
               /\ mkdir_failed' = ~made
    /\ pc' = "open"
    /\ UNCHANGED <<error, timestamps, mainVars, assets, ignore_errors,
                   no_clobber, i, content, files, fetch_log, write_log,
                   warnings, stdout, harnessVars, first_run>>

\* The step a failed open or write ends in.
WriteError(file_after) ==
    /\ files' = [files EXCEPT ![FilePathOf(i)] = file_after]
    /\ pc' = OnWriteError(ignore_errors)
    /\ IF OnWriteError(ignore_errors) = "raised"
       THEN /\ error' = "oserror"
            /\ UNCHANGED warnings
       ELSE /\ warnings' = Append(warnings, i)
            /\ UNCHANGED error

\* pack.py:121-123: open(filepath, "wb") and f.write(content).  open fails
\* where filedir is no directory and may fail elsewhere (the file is left
\* as it was); a write that fails leaves the file truncated.
WriteFile ==
    /\ pc = "open"
    /\ \/ /\ dir_exists
          /\ files' = [files EXCEPT ![FilePathOf(i)] = content]
          /\ write_log' = Append(write_log, i)
          /\ pc' = AfterWrite
          /\ UNCHANGED <<error, warnings>>
       \/ /\ WriteError(files[FilePathOf(i)])
          /\ UNCHANGED write_log
       \/ /\ dir_exists
          /\ WriteError(EmptyFile)
          /\ UNCHANGED write_log
    /\ UNCHANGED <<timestamps, mainVars, assets, ignore_errors, no_clobber, i,
                   content, dir_exists, mkdir_failed, fetch_log, stdout,
                   harnessVars, first_run>>

\* pack.py:125-142: the file is read back as UTF-8 and parsed; a <base> tag
\* is put first in <head>; the file is written again.  Bytes that are not
\* UTF-8 raise at line 128, a document without <head> raises at line 136
\* (soup.head is None), and the second write can fail as the first.
PostProcess ==
    /\ pc = "post"
    /\ \/ /\ content.kind = "html"
          /\ files' = [files EXCEPT ![FilePathOf(i)] =
                          [kind |-> "based", origin |-> content.origin]]
          /\ pc' = "loop"
          /\ UNCHANGED <<error, warnings>>
       \/ /\ content.kind = "html"
          /\ WriteError(EmptyFile)
       \/ /\ content.kind # "html"
          /\ pc' = "raised"
          /\ error' = "postprocess"
          /\ UNCHANGED <<files, warnings>>
    /\ UNCHANGED <<timestamps, mainVars, assets, ignore_errors, no_clobber, i,
                   content, dir_exists, mkdir_failed, fetch_log, write_log,
                   stdout, harnessVars, first_run>>

\* ------------------------------------------------------------- list mode

\* The archive's root URL.
Root == <<"r">>

\* asset.py: "{root}/web/{timestamp}{flag}/{original_url}"
get_archive_url(asset, root, flag) ==
    root \o <<"/", "w", "e", "b", "/">> \o asset.timestamp \o flag
         \o <<"/">> \o asset.original_url

\* cli.py:182
Flag(raw) == IF raw THEN <<"i", "d", "_">> ELSE <<>>

\* cli.py:184: print("\n".join(urls)) prints a line per URL, and of no URL
\* one empty line.
PrintedLines(urls) == IF urls = <<>> THEN <<<<>>>> ELSE urls

\* cli.py:181-184
ListUrls ==
    /\ pc = "list"
    /\ \E raw \in BOOLEAN :
          stdout' = PrintedLines([k \in 1..Len(assets) |->
                        get_archive_url(assets[k], Root, Flag(raw))])
    /\ pc' = "done"
    /\ UNCHANGED <<error, timestamps, mainVars, assets, ignore_errors,
                   no_clobber, i, content, dir_exists, files, mkdir_failed,
                   fetch_log, write_log, warnings, harnessVars, first_run>>

Next ==
    \/ FilterTimestamps
    \/ BuildPack
    \/ ListUrls
    \/ CallDownloadTo
    \/ LoopEnds
    \/ NextAsset
    \/ FetchContent
    \/ FetchNone
    \/ FetchRaises
    \/ MakeDirs
    \/ WriteFile
    \/ PostProcess

Spec == Init /\ [][Next]_vars

\* ------------------------------------------------------------ a second run

\* The command is run again, with --no-clobber, on the directory the first
\* run left: main builds the same Pack from the same index (cli.py:156-170)
\* and calls download_to with no_clobber=True (cli.py:172-180), which starts
\* its loop anew (pack.py:74).  How the first run ended, what it wrote and
\* the files it left are kept for comparison.
Rerun ==
    /\ pc \in {"done", "raised"}
    /\ error # "parse"
    /\ ~list_mode
    /\ first_run = NoRun
    /\ first_run' = [ended |-> pc, error |-> error, write_log |-> write_log,
                     files |-> files]
    /\ \E ie \in BOOLEAN : ignore_errors' = ie
    /\ no_clobber' = TRUE
    /\ i' = 0
    /\ pc' = "loop"
    /\ error' = "none"
    /\ content' = NoContent
    /\ mkdir_failed' = FALSE
    /\ fetch_log' = <<>>
    /\ write_log' = <<>>
    /\ warnings' = <<>>
    /\ UNCHANGED <<timestamps, mainVars, assets, dir_exists, files, stdout,
                   harnessVars>>

RerunNext == Next \/ Rerun

\* The index of the runs that are run again: captures a day apart, which
\* the filter retains, and the index the command is run on by default.
RerunPool == <<T_Jan01, T_Jan02, T_Jan03>>

RerunInit == InitFrom(RerunPool, {DefaultFrequency})

RerunSpec == RerunInit /\ [][RerunNext]_vars

\* ------------------------------------------ filter_by_frequency on its own

\* The function applied to any list of timestamps, in order or not, and
\* applied again to what it returned.
FilterInit ==
    /\ pc = "h_input"
    /\ error = "none"
    /\ snapshots = <<>>
    /\ timestamps \in SeqsUpTo(FilterPool, MaxLen)
    /\ frequency \in 1..MaxFrequency
    /\ list_mode = FALSE
    /\ url = "dir_url"
    /\ psl = "linux"
    /\ assets = <<>>
    /\ ignore_errors = FALSE
    /\ no_clobber = FALSE
    /\ i = 0
    /\ content = NoContent
    /\ files = <<>>
    /\ dir_exists = FALSE
    /\ mkdir_failed = FALSE
    /\ fetch_log = <<>>
    /\ write_log = <<>>
    /\ warnings = <<>>
    /\ stdout = <<>>
    /\ once = Returned(<<>>)
    /\ twice = Returned(<<>>)
    /\ path = <<>>
    /\ fallback_char = FallbackChar
    /\ first_run = NoRun

HarnessFilter ==
    /\ pc = "h_input"
    /\ once' = filter_by_frequency(timestamps, frequency)
    /\ pc' = "h_once"
    /\ UNCHANGED <<error, timestamps, mainVars, runVars, twice, path,
                   fallback_char, first_run>>

HarnessRefilter ==
    /\ pc = "h_once"
    /\ ~once.raised
    /\ twice' = filter_by_frequency(once.value, frequency)
    /\ pc' = "h_twice"
    /\ UNCHANGED <<error, timestamps, mainVars, runVars, once, path,
                   fallback_char, first_run>>

HarnessNext == HarnessFilter \/ HarnessRefilter

FilterSpec == FilterInit /\ [][HarnessNext]_vars

\* --------------------------------------- replace_invalid_chars on its own

\* The paths given have at most this many characters.
MaxPathLen == 3

\* Characters of the paths given: reserved on Windows and macOS (":"), on
\* Windows only ("*"), and nowhere.
PathChars == {"a", "_", "/", ":", "*"}

\* The fallback characters given: the default, and a reserved one.
FallbackChars == {"_", ":"}

SanitizeInit ==
    /\ pc = "s_input"
    /\ error = "none"
    /\ snapshots = <<>>
    /\ timestamps = <<>>
    /\ frequency = DefaultFrequency
    /\ list_mode = FALSE
    /\ url = "dir_url"
    /\ psl \in Platforms
    /\ assets = <<>>
    /\ ignore_errors = FALSE
    /\ no_clobber = FALSE
    /\ i = 0
    /\ content = NoContent
    /\ files = <<>>
    /\ dir_exists = FALSE
    /\ mkdir_failed = FALSE
    /\ fetch_log = <<>>
    /\ write_log = <<>>
    /\ warnings = <<>>
    /\ stdout = <<>>
    /\ once = Returned(<<>>)
    /\ twice = Returned(<<>>)
    /\ path \in SeqsUpTo(PathChars, MaxPathLen)
    /\ fallback_char \in FallbackChars
    /\ first_run = NoRun

HarnessSanitize ==
    /\ pc = "s_input"
    /\ once' = Returned(replace_invalid_chars(psl, path, fallback_char))
    /\ pc' = "s_once"
    /\ UNCHANGED <<error, timestamps, mainVars, runVars, twice, path,
                   fallback_char, first_run>>

HarnessResanitize ==
    /\ pc = "s_once"
    /\ twice' = Returned(replace_invalid_chars(psl, once.value, fallback_char))
    /\ pc' = "s_twice"
    /\ UNCHANGED <<error, timestamps, mainVars, runVars, once, path,
                   fallback_char, first_run>>

SanitizeNext == HarnessSanitize \/ HarnessResanitize

SanitizeSpec == SanitizeInit /\ [][SanitizeNext]_vars

\* ================================================================== claims

\* The elapsed time from timestamp a to timestamp b is at least n days.
DaysApart(a, b, n) ==
    TdGe(DtSub(string_to_datetime(b), string_to_datetime(a)), timedelta(n))

\* The last index before k that keep marks.
LastKept(keep, k) ==
    CHOOSE j \in 1..(k - 1) :
        keep[j] /\ \A m \in (j + 1)..(k - 1) : ~keep[m]

\* keep marks the first timestamp, and a later one exactly when it is at
\* least n days after the last one marked before it.
KeepRule(keep, input, n) ==
    /\ Len(input) >= 1 => keep[1]
    /\ \A k \in 2..Len(input) :
          keep[k] <=> DaysApart(input[LastKept(keep, k)], input[k], n)

RECURSIVE KeptFrom(_, _, _)
KeptFrom(input, keep, k) ==
    IF k > Len(input) THEN <<>>
    ELSE (IF keep[k] THEN <<input[k]>> ELSE <<>>) \o KeptFrom(input, keep, k + 1)

\* output is input filtered with a minimum gap of n days.
FilteredBy(input, output, n) ==
    \E keep \in [1..Len(input) -> BOOLEAN] :
        /\ KeepRule(keep, input, n)
        /\ output = KeptFrom(input, keep, 1)

\* sub is full with some elements left out, the rest in their order.
IsSubsequence(sub, full) ==
    \E f \in [1..Len(sub) -> 1..Len(full)] :
        /\ \A k \in 1..Len(sub) : sub[k] = full[f[k]]
        /\ \A k \in 1..(Len(sub) - 1) : f[k] < f[k + 1]

\* Ascending in time.
Ordered(stamps) ==
    \A k \in 1..(Len(stamps) - 1) : DaysApart(stamps[k], stamps[k + 1], 0)

\* C1: filter_by_frequency honours the configured interval: the list main
\* keeps after the filter is the index's list filtered with a minimum gap
\* of `frequency` days, whatever the value of frequency.
C1_FrequencyHonoured ==
    pc = "pack" => FilteredBy(snapshots, timestamps, frequency)

\* C2: for a non-empty ordered input the output of filter_by_frequency is
\* a subsequence of the input in the same order, starts with the input's
\* first element, and every adjacent pair of it is at least one day apart.
C2_SubsequenceFirstAndGaps ==
    (pc \in {"h_once", "h_twice"} /\ ~once.raised /\ timestamps # <<>>
        /\ Ordered(timestamps))
    => /\ IsSubsequence(once.value, timestamps)
       /\ once.value # <<>>
       /\ once.value[1] = timestamps[1]
       /\ \A k \in 1..(Len(once.value) - 1) :
             DaysApart(once.value[k], once.value[k + 1], 1)

\* C2's case: an ordered input of which one timestamp was dropped and two
\* were kept.
C2_Witness ==
    /\ pc = "h_once"
    /\ ~once.raised
    /\ Ordered(timestamps)
    /\ Len(once.value) >= 2
    /\ Len(once.value) < Len(timestamps)

\* C3: each timestamp is judged against the most recently retained one,
\* not against the previous raw one: the list kept is the index's list
\* filtered with a gap of one day counted from the last retained
\* timestamp, and 20150101000000, 20150101120000, 20150103000000 yields
\* the first and the third.
C3_JudgedAgainstLastRetained ==
    pc = "pack" =>
        /\ FilteredBy(snapshots, timestamps, 1)
        /\ snapshots = <<T_Jan01, T_Jan01Noon, T_Jan03>>
              => timestamps = <<T_Jan01, T_Jan03>>

\* C3's case: a capture half a day after a skipped one is retained, being
\* one day after the last retained one.
C3_Witness ==
    /\ pc = "pack"
    /\ snapshots = <<T_Jan01, T_Jan01Noon, T_Jan02>>
    /\ timestamps = <<T_Jan01, T_Jan02>>

\* C4: filter_by_frequency is idempotent: applied to its own output with
\* the same interval it returns that output.
C4_Idempotent ==
    pc = "h_twice" => twice = once

\* C4's case: the first application dropped something and kept two or more.
C4_Witness ==
    /\ pc = "h_twice"
    /\ Len(once.value) >= 2
    /\ Len(once.value) < Len(timestamps)

LastOf(s) == s[Len(s)]

FetchOutcomes(outcome) ==
    {k \in 1..Len(fetch_log) : fetch_log[k].outcome = outcome}

FetchedAssets == {fetch_log[k].asset : k \in 1..Len(fetch_log)}

\* C5: with no_clobber=True, an asset whose destination exists with size
\* greater than zero when the loop reaches it is passed over: the loop
\* moves on with no fetch issued, no file written and the files as they
\* were; a fetch is never about to be issued for such an asset.
C5_NoClobberSkips ==
    /\ [](pc = "fetch" /\ no_clobber => ~NonEmpty(files[FilePathOf(i)]))
    /\ [][(pc = "loop" /\ i < Len(assets) /\ no_clobber
              /\ NonEmpty(files[FilePathOf(i + 1)]))
          => (/\ pc' = "loop"
              /\ i' = i + 1
              /\ files' = files
              /\ fetch_log' = fetch_log
              /\ write_log' = write_log)]_vars

\* C5's case: the loop has just passed over an asset whose destination
\* held bytes; no fetch was made for it.
C5_Witness ==
    /\ pc = "loop"
    /\ no_clobber
    /\ i >= 1
    /\ NonEmpty(files[FilePathOf(i)])
    /\ i \notin FetchedAssets
    /\ FetchedAssets # {}

\* C6: with ignore_errors=True, when the fetch of one asset raises and
\* every other fetch returns content, at least one byte of it (and the
\* file system does not fail),
\* the run goes on to the end of the list: it never raises, and at its end
\* a file was written for each asset whose fetch returned content, none
\* for the failing one, and one warning was logged, for the failing one.
C6_IgnoreErrorsCompletes ==
    (/\ ignore_errors
     /\ error # "oserror"
     /\ ~mkdir_failed
     /\ FetchOutcomes("none") = {}
     /\ content.kind # "empty"
     /\ Cardinality(FetchOutcomes("raise")) = 1)
    => /\ pc # "raised"
       /\ pc = "done" =>
             /\ \A k \in 1..Len(fetch_log) :
                   (fetch_log[k].outcome = "content")
                       <=> (fetch_log[k].asset \in Range(write_log))
             /\ warnings =
                   <<fetch_log[CHOOSE j \in FetchOutcomes("raise") : TRUE].asset>>

\* C7: with ignore_errors=False the first fetch that raises halts the run:
\* the error leaves download_to, the files and the directory are as they
\* were before that fetch, nothing is fetched or written after it, and the
\* halted run takes no further step.
C7_FailFast ==
    /\ []((fetch_log # <<>> /\ ~ignore_errors /\ FetchOutcomes("raise") # {})
          => /\ pc = "raised"
             /\ error = "fetch"
             /\ FetchOutcomes("raise") = {Len(fetch_log)}
             /\ LastOf(fetch_log).asset = i
             /\ \A k \in 1..Len(fetch_log) : fetch_log[k].asset <= i
             /\ \A k \in 1..Len(write_log) : write_log[k] < i
             /\ warnings = <<>>)
    /\ [][(pc = "fetch" /\ ~ignore_errors /\ fetch_log' # fetch_log
              /\ LastOf(fetch_log').outcome = "raise")
          => (files' = files /\ dir_exists' = dir_exists
                 /\ write_log' = write_log)]_vars
    /\ [][pc # "raised"]_vars

\* C7's case: the run halted on a fetch error after writing a file for an
\* earlier asset, with an asset still to come.
C7_Witness ==
    /\ pc = "raised"
    /\ error = "fetch"
    /\ ~ignore_errors
    /\ write_log # <<>>
    /\ i < Len(assets)

\* C8: when Asset.fetch returns None the asset is skipped, whatever
\* ignore_errors is: the loop goes on to the next asset, no directory is
\* made, no file written, nothing raised and no warning logged; the steps
\* that make the directory and write the file are only reached after a
\* fetch of this asset returned content.
C8_NoContentSkips ==
    /\ [](pc \in {"mkdir", "open", "post"}
             => LastOf(fetch_log) = [asset |-> i, outcome |-> "content"])
    /\ [][(pc = "fetch" /\ fetch_log' # fetch_log
              /\ LastOf(fetch_log').outcome = "none")
          => (/\ pc' = "loop"
              /\ i' = i
              /\ files' = files
              /\ dir_exists' = dir_exists
              /\ write_log' = write_log
              /\ warnings' = warnings
              /\ error' = "none")]_vars

\* C8's case: a fetch has just returned None with ignore_errors=False, the
\* directory is still missing and another asset is to come.
C8_Witness ==
    /\ pc = "loop"
    /\ ~ignore_errors
    /\ fetch_log # <<>>
    /\ LastOf(fetch_log) = [asset |-> i, outcome |-> "none"]
    /\ ~dir_exists
    /\ i < Len(assets)

\* C9: a file system error while making the destination directory or
\* writing the file is fatal whatever ignore_errors is: after a failed
\* makedirs the run can only raise, a step at the open and write that does
\* not write the file raises, and neither logs a warning or lets the loop
\* go on; the loop goes on from the rewriting of the file only when the
\* file was rewritten.
C9_FilesystemErrorsFatal ==
    /\ [](mkdir_failed => pc \in {"open", "raised"})
    /\ [](mkdir_failed /\ pc = "raised" => error = "oserror")
    /\ [][(pc = "open" /\ (mkdir_failed \/ write_log' = write_log))
          => (/\ pc' = "raised"
              /\ error' = "oserror"
              /\ warnings' = warnings)]_vars
    /\ [][pc = "post"
          => (/\ warnings' = warnings
              /\ pc' = "loop" => files'[FilePathOf(i)].kind = "based"
              /\ pc' # "loop" => pc' = "raised")]_vars

\* C9's case: with ignore_errors=True, a run that had logged a warning for
\* a fetch error was aborted by a write that failed in an existing
\* directory.
C9_Witness ==
    /\ pc = "raised"
    /\ error = "oserror"
    /\ ignore_errors
    /\ warnings # <<>>
    /\ dir_exists
    /\ ~mkdir_failed
    /\ LastOf(fetch_log).outcome = "content"
    /\ i \notin Range(write_log)

\* C10: within one pack the destinations of assets with different
\* timestamps are different files.
C10_DestinationsDisjoint ==
    \A a, b \in 1..Len(assets) :
        assets[a].timestamp # assets[b].timestamp
            => FilePathOf(a) # FilePathOf(b)

\* ------------------------------------------------------------------- C11

\* The Pack exists: cli.py:170 has run.
PackBuilt == pc \notin {"filter", "pack"} /\ error # "parse"

\* What a printed line carries after "{root}/web/", at the stamp's length.
StampOfLine(line, stamp) ==
    SubSeq(line, Len(Root) + 6, Len(Root) + 5 + Len(stamp))

\* The asset indexes of a log of fetches.
AssetsOf(log) == [k \in 1..Len(log) |-> log[k].asset]

\* A sequence of numbers that only grows.
Increasing(s) == \A a, b \in 1..Len(s) : a < b => s[a] < s[b]

\* C11: once the Pack is built it has as many assets as timestamps and the
\* k-th asset carries the k-th timestamp; the timestamps are the index's in
\* the index's order; download_to fetches and writes the assets by growing
\* index, and list mode prints the k-th timestamp on the k-th line.
C11_AssetsFollowTimestamps ==
    PackBuilt =>
        /\ Len(assets) = Len(timestamps)
        /\ \A k \in 1..Len(assets) : assets[k].timestamp = timestamps[k]
        /\ IsSubsequence(timestamps, snapshots)
        /\ Increasing(AssetsOf(fetch_log))
        /\ Increasing(write_log)
        /\ pc \in {"fetch", "mkdir", "open", "post"} =>
              /\ \A k \in Range(AssetsOf(fetch_log)) : k <= i
              /\ \A k \in Range(write_log) : k <= i
        /\ (list_mode /\ pc = "done") =>
              \A k \in 1..Len(timestamps) :
                  StampOfLine(stdout[k], timestamps[k]) = timestamps[k]

\* A run that fetched its second and third assets in that order, the three
\* carrying the three timestamps of the index.
C11_Witness ==
    /\ pc = "done"
    /\ Len(assets) = 3
    /\ timestamps = <<T_Jan01, T_Jan02, T_Jan03>>
    /\ \A k \in 1..3 : assets[k].timestamp = timestamps[k]
    /\ Len(fetch_log) >= 2
    /\ AssetsOf(fetch_log)[Len(fetch_log)] = 3


\* ------------------------------------------------------------------- C12

\* The assets whose fetch returned bytes that are not written yet.
FetchedUnwritten ==
    {fetch_log[k].asset : k \in FetchOutcomes("content")} \ Range(write_log)

\* The destinations holding bytes as fetched, still to be rewritten.
RawDests == {d \in DOMAIN files : files[d].kind = "html"}

\* C12: download_to has one asset in hand at a time.  While the loop runs,
\* only the asset the loop is at can be fetched and unwritten, and only its
\* destination can hold a page not yet rewritten; at the loop head, at the
\* moment a fetch is issued and at the end there is none, and every fetch
\* and write so far is of an asset up to the one the loop is at.
C12_OneAssetAtATime ==
    pc \in {"loop", "fetch", "mkdir", "open", "post", "done"} =>
        /\ FetchedUnwritten \subseteq {i}
        /\ RawDests # {} => (i >= 1 /\ RawDests = {FilePathOf(i)})
        /\ pc \in {"loop", "fetch", "done"} =>
              (FetchedUnwritten = {} /\ RawDests = {})
        /\ pc = "fetch" =>
              /\ \A k \in FetchedAssets : k < i
              /\ \A k \in Range(write_log) : k < i
        /\ pc \in {"mkdir", "open"} =>
              (FetchedUnwritten = {i} /\ RawDests = {})
        /\ pc = "post" => LastOf(write_log) = i

\* The fetch of the second asset is about to be issued, the first asset
\* fetched, written and rewritten.
C12_Witness ==
    /\ pc = "fetch"
    /\ i = 2
    /\ fetch_log = <<[asset |-> 1, outcome |-> "content"]>>
    /\ write_log = <<1>>
    /\ files[FilePathOf(1)].kind = "based"


\* ------------------------------------------------------------------- C13

\* A timestamp as the index documents it: 14 digits, YYYYMMDDHHMMSS, that
\* name a date and a time of day.
WellFormed(s) ==
    /\ Len(s) = 14
    /\ \A k \in 1..14 : IsDigit(s[k])
    /\ NumVal(SubSeq(s, 1, 4)) >= 1
    /\ NumVal(SubSeq(s, 5, 6)) \in 1..12
    /\ NumVal(SubSeq(s, 7, 8)) \in
          1..DaysInMonth(NumVal(SubSeq(s, 1, 4)), NumVal(SubSeq(s, 5, 6)))
    /\ NumVal(SubSeq(s, 9, 10)) \in 0..23
    /\ NumVal(SubSeq(s, 11, 12)) \in 0..59
    /\ NumVal(SubSeq(s, 13, 14)) \in 0..59

\* Some timestamp of the list is not well-formed.
SomeMalformed(stamps) == \E k \in 1..Len(stamps) : ~WellFormed(stamps[k])

\* C13: filter_by_frequency returns the empty list for the empty list and
\* a list of one well-formed timestamp unchanged, and raises for a list
\* with a timestamp that is not well-formed at any position; in a run, an
\* index with such a timestamp ends the run in a parse error with no Pack
\* built, nothing fetched, nothing written and nothing printed.
C13_FilterEdgeCases ==
    /\ pc \in {"h_once", "h_twice"} =>
          /\ timestamps = <<>> => once = Returned(<<>>)
          /\ (Len(timestamps) = 1 /\ WellFormed(timestamps[1])) =>
                once = Returned(timestamps)
          /\ SomeMalformed(timestamps) => once.raised
    /\ pc \in {"pack", "list", "call", "loop", "fetch", "mkdir", "open",
               "post", "done", "raised"} =>
          /\ snapshots = <<>> => (timestamps = <<>> /\ error # "parse")
          /\ (Len(snapshots) = 1 /\ WellFormed(snapshots[1])) =>
                (timestamps = snapshots /\ error # "parse")
          /\ SomeMalformed(snapshots) =>
                /\ pc = "raised"
                /\ error = "parse"
                /\ assets = <<>>
                /\ fetch_log = <<>>
                /\ write_log = <<>>
                /\ stdout = <<>>

\* ------------------------------------------------------------------- C14

\* The archive URL of a timestamp of this run, with or without "id_".
ArchiveUrlOf(stamp, raw) ==
    Root \o <<"/", "w", "e", "b", "/">> \o stamp
         \o (IF raw THEN <<"i", "d", "_">> ELSE <<>>)
         \o <<"/">> \o UrlText(url) \o <<"/">>

\* The lines of the output that are not empty.
UrlLines == SelectSeq(stdout, LAMBDA line : line # <<>>)

\* C14: a run in list mode never enters download_to, fetches nothing and
\* writes no file; it can always print, also for an empty list, and when it
\* is done it has raised nothing and printed one archive URL per timestamp,
\* the k-th line for the k-th timestamp.
C14_ListMode ==
    /\ [](list_mode =>
            /\ pc \in {"filter", "pack", "list", "done", "raised"}
            /\ fetch_log = <<>>
            /\ write_log = <<>>
            /\ pc = "raised" => error = "parse"
            /\ pc = "list" => ENABLED ListUrls
            /\ pc = "done" =>
                  /\ error = "none"
                  /\ Len(UrlLines) = Len(timestamps)
                  /\ \E raw \in BOOLEAN : \A k \in 1..Len(timestamps) :
                        UrlLines[k] = ArchiveUrlOf(timestamps[k], raw))
    /\ [][list_mode => (files' = files /\ dir_exists' = dir_exists)]_vars

\* A list of three URLs printed.
C14_Witness ==
    /\ list_mode
    /\ pc = "done"
    /\ Len(timestamps) = 3
    /\ Len(UrlLines) = 3
    /\ UrlLines[3] = ArchiveUrlOf(T_Jan03, TRUE)


\* ------------------------------------------------------------------- C15

\* What the claim says of a path and its sanitized form but for the
\* reserved characters left.
SanitizedFrom(p, out) ==
    /\ Len(out) = Len(p)
    /\ \A k \in 1..Len(p) :
          IF p[k] \in invalid_chars(psl)
          THEN out[k] = fallback_char
          ELSE out[k] = p[k]

NoReservedChar(out) == \A k \in 1..Len(out) : out[k] \notin invalid_chars(psl)

\* C15 as claimed: the sanitized path has the path's length, the fallback
\* character where the path has a reserved one and the path's character
\* elsewhere; it has no reserved character; sanitizing it again returns it.
C15_Sanitized ==
    /\ pc \in {"s_once", "s_twice"} =>
          (SanitizedFrom(path, once.value) /\ NoReservedChar(once.value))
    /\ pc = "s_twice" => twice = once

\* C15 amended: as claimed, the sanitized path being free of reserved
\* characters where the fallback character is not itself reserved on the
\* platform.
C15_SanitizedUnlessFallbackReserved ==
    /\ pc \in {"s_once", "s_twice"} =>
          /\ SanitizedFrom(path, once.value)
          /\ fallback_char \notin invalid_chars(psl) =>
                NoReservedChar(once.value)
    /\ pc = "s_twice" => twice = once

\* A path with two reserved characters sanitized twice on Windows.
C15_Witness ==
    /\ pc = "s_twice"
    /\ psl = "windows"
    /\ fallback_char = "_"
    /\ path = <<":", "a", "*">>
    /\ once.value = <<"_", "a", "_">>
    /\ twice.value = <<"_", "a", "_">>


\* ------------------------------------------------------------------- C16

\* download_to has been entered.
InDownloadTo ==
    /\ pc \in {"loop", "fetch", "mkdir", "open", "post", "done", "raised"}
    /\ error # "parse"
    /\ ~list_mode

\* Several assets and a target URL with a path tail: one destination for
\* all of them.
SharedDest ==
    /\ Len(assets) >= 2
    /\ os_path_split(psl, UrlPath(url)).tail # <<>>
    /\ Cardinality(DOMAIN files) = 1

\* The asset carrying the j-th timestamp of the pack.
AssetAt(j) == CHOOSE k \in 1..Len(assets) : assets[k].timestamp = timestamps[j]

\* Asset k was fetched and the fetch gave no content.
FetchedInVain(k) ==
    \E n \in 1..Len(fetch_log) :
        fetch_log[n].asset = k /\ fetch_log[n].outcome # "content"

\* The file holds what the fetch of the asset of this timestamp returned,
\* rewritten or not.
HoldsContentOf(f, stamp) ==
    \/ f.kind \in {"html", "based", "nohead", "binary"} /\ f.origin = stamp
    \/ f.kind = "empty" /\ content.kind = "empty"

\* C16: under no_clobber, with several assets on one destination and no
\* file system error, at most one fetch returns content; once its bytes are
\* written the file holds that asset's content, every asset of an earlier
\* timestamp was fetched and gave none, and no asset of a later timestamp
\* is fetched at any time after.
C16_FirstOccurrenceWins ==
    (InDownloadTo /\ no_clobber /\ SharedDest /\ error # "oserror") =>
        /\ Cardinality(FetchOutcomes("content")) <= 1
        /\ Len(write_log) <= 1
        /\ write_log # <<>> =>
              \E j \in 1..Len(timestamps) :
                  /\ write_log = <<AssetAt(j)>>
                  /\ HoldsContentOf(files[FilePathOf(1)], timestamps[j])
                  /\ \A e \in 1..(j - 1) : FetchedInVain(AssetAt(e))
                  /\ \A l \in (j + 1)..Len(timestamps) :
                        AssetAt(l) \notin FetchedAssets

\* Three assets on one destination: the first gave no content, the second
\* was written, the third was passed over, and the run is done.
C16_Witness ==
    /\ pc = "done"
    /\ no_clobber
    /\ SharedDest
    /\ Len(assets) = 3
    /\ fetch_log = <<[asset |-> 1, outcome |-> "none"],
                     [asset |-> 2, outcome |-> "content"]>>
    /\ write_log = <<2>>
    /\ files[FilePathOf(1)] = [kind |-> "based", origin |-> timestamps[2]]


\* ------------------------------------------------------------------- C17

\* The step from the loop head to the next asset passes it over, without a
\* fetch, exactly when no_clobber is set and its destination is a file of
\* non-zero size, and goes to fetch it otherwise.
SkipStep ==
    (pc = "loop" /\ i < Len(assets)) =>
        /\ pc' \in {"loop", "fetch"}
        /\ fetch_log' = fetch_log
        /\ pc' = "loop" <=>
              /\ no_clobber
              /\ files[FilePathOf(i + 1)].kind \notin {"absent", "empty"}

\* The step taken where a fetch is due is a fetch of that asset.
FetchStep ==
    pc = "fetch" =>
        \E o \in {"content", "none", "raise"} :
            fetch_log' = Append(fetch_log, [asset |-> i, outcome |-> o])

\* A fetch that returned content is followed by the attempt to write, and
\* a write that succeeds puts the fetched bytes in place of whatever the
\* destination held.
WriteStep ==
    /\ (pc = "fetch" /\ LastOf(fetch_log').outcome = "content") =>
          pc' = "mkdir"
    /\ (pc = "open" /\ pc' # "raised") =>
          /\ LastOf(fetch_log) = [asset |-> i, outcome |-> "content"]
          /\ files' = [files EXCEPT ![FilePathOf(i)] = content]
          /\ write_log' = Append(write_log, i)

\* C17: an asset is passed over without a fetch only under no_clobber with
\* a destination of non-zero size; otherwise it is fetched, and the bytes
\* of a fetch that returned content replace the destination.
C17_SkipOnlyNonEmptyUnderNoClobber ==
    /\ [][SkipStep /\ FetchStep /\ WriteStep]_vars
    /\ [](pc = "post" =>
            (files[FilePathOf(i)] = content /\ content.kind # "none"))

\* Under no_clobber a fetch is due for an asset whose destination is an
\* empty file.
C17_Witness ==
    /\ pc = "fetch"
    /\ no_clobber
    /\ files[FilePathOf(i)] = EmptyFile


\* ------------------------------------------------------------------- C18

\* The steps of one iteration that are still to come, by position.
StepsLeftInIteration ==
    CASE pc = "fetch" -> 4
      [] pc = "mkdir" -> 3
      [] pc = "open" -> 2
      [] pc = "post" -> 1
      [] OTHER -> 0

\* A bound on the steps download_to can still take: none when it has
\* returned or raised.
StepsLeft ==
    IF pc \in {"done", "raised"} THEN 0
    ELSE (Len(assets) - i) * 5 + StepsLeftInIteration + 1

\* The guard of a step of download_to holds: at the loop head that of
\* LoopEnds or of NextAsset; within an iteration, whose steps have no guard
\* but their position, the loop is at an asset of the list and holds the
\* content PostProcess tells apart.
CanStep ==
    CASE pc = "loop" -> i = Len(assets) \/ i < Len(assets)
      [] pc \in {"fetch", "mkdir"} -> i \in 1..Len(assets)
      [] pc \in {"open", "post"} ->
             i \in 1..Len(assets) /\ content.kind \in ContentKinds
      [] OTHER -> pc \in {"done", "raised"}

\* Asset k has a fetch in the log, and it returned content.
FetchedWithContent(k) ==
    \E n \in 1..Len(fetch_log) :
        fetch_log[n] = [asset |-> k, outcome |-> "content"]

\* C18: download_to fetches no asset twice and none beyond the iterations
\* made, which are at most len(assets); it writes only an asset whose fetch
\* returned content, in the iteration of that fetch; until it has returned
\* or raised it can take a step, and each step brings the bound on the
\* steps left down, so it returns or raises.
C18_BoundedFetchesAndTermination ==
    /\ [](InDownloadTo =>
            /\ i <= Len(assets)
            /\ Increasing(AssetsOf(fetch_log))
            /\ \A k \in FetchedAssets : k <= i
            /\ \A k \in Range(write_log) : FetchedWithContent(k)
            /\ CanStep)
    /\ [][(InDownloadTo /\ write_log' # write_log) =>
             /\ write_log' = Append(write_log, i)
             /\ LastOf(fetch_log) = [asset |-> i, outcome |-> "content"]]_vars
    /\ [][InDownloadTo => StepsLeft' < StepsLeft]_vars

\* A run over three assets that returned with three fetches made and two
\* files written.
C18_Witness ==
    /\ pc = "done"
    /\ ~list_mode
    /\ i = 3
    /\ Len(assets) = 3
    /\ Len(fetch_log) = 3
    /\ Len(write_log) = 2


\* ------------------------------------------------------------------- C19

\* This is the second run on the directory.
SecondRun == first_run.ended # "none"

\* The first run returned, or was halted by a fetch error it did not ignore.
FirstRunCompleteOrFailFast ==
    \/ first_run.ended = "done"
    \/ first_run.ended = "raised" /\ first_run.error = "fetch"

\* The file was missing or empty.
MissingOrEmpty(f) == f.kind \in {"absent", "empty"}

\* C19: in a second run under no_clobber, after a first run that returned
\* or was halted by a fetch error, no asset the first run wrote is fetched
\* and the file of each is as the first run left it; an asset is fetched
\* only where its destination was left, and still is, missing or empty.
C19_RerunIdempotent ==
    (SecondRun /\ FirstRunCompleteOrFailFast) =>
        /\ \A k \in Range(first_run.write_log) :
              /\ k \notin FetchedAssets
              /\ files[FilePathOf(k)] = first_run.files[FilePathOf(k)]
        /\ \A k \in FetchedAssets :
              MissingOrEmpty(first_run.files[FilePathOf(k)])
        /\ pc = "fetch" => MissingOrEmpty(files[FilePathOf(i)])

\* The first run wrote asset 1 and was halted by the fetch of asset 2; the
\* second run passed asset 1 over, fetched and wrote asset 2 and returned.
C19_Witness ==
    /\ SecondRun
    /\ first_run.ended = "raised"
    /\ first_run.error = "fetch"
    /\ first_run.write_log = <<1>>
    /\ pc = "done"
    /\ FetchedAssets = {2}
    /\ write_log = <<2>>
    /\ files[FilePathOf(1)] = first_run.files[FilePathOf(1)]

====
